---- MODULE Spec2Model ----
(***************************************************************************)
(* Kp index monitor (GFZ/kp_alert): fetch -> analyze -> decide -> send ->  *)
(* record, run in a retry-forever loop.                                    *)
(*                                                                         *)
(* Units: Kp values are integers in thousandths (5.333 is 5333), so that   *)
(* rounding to two decimals is a real conversion; times are integers in    *)
(* minutes of UTC wall clock.                                              *)
(***************************************************************************)
EXTENDS Integers, Sequences, FiniteSets, TLC

VARIABLES
    config,           \* MonitorConfig: kp_alert_threshold, check_interval (minutes)
    last_alert_time,  \* KpMonitor.last_alert_time (None or a clock value)
    last_max_kp,      \* KpMonitor.last_max_kp
    clock,            \* the UTC wall clock, pd.Timestamp.now(tz="UTC")
    pc,               \* position in run_continuous_monitoring / run_single_check
    df,               \* the table of the pass (NoneDf when the fetch failed)
    analysis,         \* what analyze_kp_data returned in this pass
    email_sent,       \* local of run_single_check: what send_alert returned
    ret,              \* what run_single_check returned ("none" while running or raised)
    decision,         \* what should_send_alert returned: "none", "Alert", "NoAlert"
    attempted,        \* history: send_alert was called in this pass
    pass0,            \* history: the alert state when the pass started
    written,          \* history: the state fields assigned in this pass
    win_now,          \* history: the two clock readings of the analysis
    pure              \* one call of a function on its own: fn, arg, out, back

vars == << config, last_alert_time, last_max_kp, clock, pc, df, analysis,
           email_sent, ret, decision, attempted, pass0, written, win_now,
           pure >>

\* ------------------------------------------------------------------ bounds
MaxClock == 500
MaxAdvance == 1
MaxRows == 10
MaxFree == 3
Margin == 340
MaxEns == 10

\* ------------------------------------------------------- program constants
ROLLING_HEAD == 8
RETRY_SLEEP == 5
COOLDOWN_HOURS == 6
None == -1

Min(a, b) == IF a < b THEN a ELSE b

\* ------------------------------------------------------------- level codec
\* a typing slip in the table: "9-" given the decimal of "9"
KP_TO_DECIMAL_slip ==
    [ l \in {"0"} |-> 0 ] @@ ("0+" :> 330) @@
    ("1-" :> 670)  @@ ("1" :> 1000) @@ ("1+" :> 1330) @@
    ("2-" :> 1670) @@ ("2" :> 2000) @@ ("2+" :> 2330) @@
    ("3-" :> 2670) @@ ("3" :> 3000) @@ ("3+" :> 3330) @@
    ("4-" :> 3670) @@ ("4" :> 4000) @@ ("4+" :> 4330) @@
    ("5-" :> 4670) @@ ("5" :> 5000) @@ ("5+" :> 5330) @@
    ("6-" :> 5670) @@ ("6" :> 6000) @@ ("6+" :> 6330) @@
    ("7-" :> 6670) @@ ("7" :> 7000) @@ ("7+" :> 7330) @@
    ("8-" :> 7670) @@ ("8" :> 8000) @@ ("8+" :> 8330) @@
    ("9-" :> 9000) @@ ("9" :> 9000)

KP_TO_DECIMAL ==
    [ l \in {"0"} |-> 0 ] @@ ("0+" :> 330) @@
    ("1-" :> 670)  @@ ("1" :> 1000) @@ ("1+" :> 1330) @@
    ("2-" :> 1670) @@ ("2" :> 2000) @@ ("2+" :> 2330) @@
    ("3-" :> 2670) @@ ("3" :> 3000) @@ ("3+" :> 3330) @@
    ("4-" :> 3670) @@ ("4" :> 4000) @@ ("4+" :> 4330) @@
    ("5-" :> 4670) @@ ("5" :> 5000) @@ ("5+" :> 5330) @@
    ("6-" :> 5670) @@ ("6" :> 6000) @@ ("6+" :> 6330) @@
    ("7-" :> 6670) @@ ("7" :> 7000) @@ ("7+" :> 7330) @@
    ("8-" :> 7670) @@ ("8" :> 8000) @@ ("8+" :> 8330) @@
    ("9-" :> 8670) @@ ("9" :> 9000)

\* DECIMAL_TO_KP = {v: k for k, v in KP_TO_DECIMAL.items()}; a lookup of a
\* value outside its keys raises KeyError.
DecimalKeys == { KP_TO_DECIMAL[l] : l \in DOMAIN KP_TO_DECIMAL }

DECIMAL_TO_KP ==
    [ v \in DecimalKeys |-> CHOOSE l \in DOMAIN KP_TO_DECIMAL : KP_TO_DECIMAL[l] = v ]

\* np.round(x): the number of decimals left out
Round0(v) ==
    LET q == v \div 1000
        r == v % 1000
    IN  IF r < 500 THEN 1000 * q
        ELSE IF r > 500 THEN 1000 * (q + 1)
        ELSE IF q % 2 = 0 THEN 1000 * q ELSE 1000 * (q + 1)

\* np.round(x, 2) on a value in thousandths: round half to even, result a
\* multiple of 10.
Round2(v) ==
    LET q == v \div 10
        r == v % 10
    IN  IF r < 5 THEN 10 * q
        ELSE IF r > 5 THEN 10 * (q + 1)
        ELSE IF q % 2 = 0 THEN 10 * q ELSE 10 * (q + 1)

\* a lookup that rounds its argument to two decimals first
decimal_to_label_rounding(v) ==
    IF Round2(v) \in DOMAIN DECIMAL_TO_KP
    THEN [ err |-> FALSE, val |-> DECIMAL_TO_KP[Round2(v)] ]
    ELSE [ err |-> TRUE, val |-> "KeyError" ]

\* DECIMAL_TO_KP[v]: the label, or KeyError
decimal_to_label(v) ==
    IF v \in DOMAIN DECIMAL_TO_KP
    THEN [ err |-> FALSE, val |-> DECIMAL_TO_KP[v] ]
    ELSE [ err |-> TRUE, val |-> "KeyError" ]

\* KP_TO_DECIMAL[l]: the decimal, or KeyError
label_to_decimal(l) ==
    IF l \in DOMAIN KP_TO_DECIMAL
    THEN [ err |-> FALSE, val |-> KP_TO_DECIMAL[l] ]
    ELSE [ err |-> TRUE, val |-> "KeyError" ]

\* no call of a function on its own is under way
NoCall ==
    [ fn |-> "none", arg |-> 0, step |-> "idle",
      out |-> [ err |-> FALSE, val |-> 0 ],
      back |-> [ err |-> FALSE, val |-> 0 ] ]

\* ---------------------------------------------------------------- analysis
RECURSIVE SeqMax(_)
SeqMax(s) ==
    IF Len(s) = 1 THEN s[1]
    ELSE LET m == SeqMax(Tail(s)) IN IF s[1] >= m THEN s[1] ELSE m

Head8(s) == SubSeq(s, 1, Min(ROLLING_HEAD, Len(s)))

\* DataFrame.round(2): every numeric column of the record, members included
RoundRow(r) ==
    [ r EXCEPT !.maximum = Round2(r.maximum),
               !.median  = Round2(r.median),
               !.minimum = Round2(r.minimum),
               !.kp      = [ k \in 1..Len(r.kp) |-> Round2(r.kp[k]) ] ]

RoundRows(s) == [ i \in 1..Len(s) |-> RoundRow(s[i]) ]

\* members strictly above the threshold counted
CountGE_strict(kp, thr) == Cardinality({ i \in 1..Len(kp) : kp[i] > thr })

\* number of ensemble members of a row that meet the threshold
CountGE(kp, thr) == Cardinality({ i \in 1..Len(kp) : kp[i] >= thr })

\* count / total, rounded to two decimals (in hundredths); 0/0 is NaN
Probability(kp, thr, total) ==
    IF total = 0 THEN "NaN"
    ELSE LET n == 100 * CountGE(kp, thr)
             q == n \div total
             r == n % total
         IN  IF 2 * r < total THEN q
             ELSE IF 2 * r > total THEN q + 1
             ELSE IF q % 2 = 0 THEN q ELSE q + 1

\* the legacy comparison: strictly above the threshold
high_kp_records_strict(rows, thr, now) ==
    SelectSeq(SelectSeq(rows, LAMBDA r : r.maximum > thr),
              LAMBDA r : r.t >= now)

high_kp_records(rows, thr, now) ==
    SelectSeq(SelectSeq(rows, LAMBDA r : r.maximum >= thr),
              LAMBDA r : r.t >= now)

\* head(9) in place of head(8)
next_24h_head9(rows, now) ==
    SubSeq(SelectSeq(rows, LAMBDA r : r.t >= now), 1,
           Min(9, Len(SelectSeq(rows, LAMBDA r : r.t >= now))))

\* the head() call forgotten
next_24h_uncapped(rows, now) ==
    SelectSeq(rows, LAMBDA r : r.t >= now)

next_24h(rows, now) ==
    Head8(SelectSeq(rows, LAMBDA r : r.t >= now))

\* alert_worthy taken from threshold_exceeded
alert_worthy_of_max(high, current_max, thr) == current_max > thr

\* line 181: alert_worthy=len(high_kp_records) > 0
alert_worthy_of(high, current_max, thr) == Len(high) > 0

AnalysisFailedDict ==
    [ ok |-> FALSE, alert_worthy |-> FALSE, current_max_kp |-> 0,
      threshold_exceeded |-> FALSE, high_kp_records |-> << >>,
      next_24h_forecast |-> << >>, probability_df |-> << >> ]

\* the KeyError of the log line swallowed and the result returned all the same
analyze_kp_data_keep(table, thr, now1, now2) ==
    IF Len(table.rows) = 0
    THEN AnalysisFailedDict
    ELSE
    LET rows        == table.rows
        current_max == Round2(SeqMax([ i \in 1..Len(rows) |-> rows[i].maximum ]))
        high        == high_kp_records(rows, thr, now1)
        nxt         == next_24h(rows, now2)
    IN  [ ok |-> TRUE,
          current_max_kp |-> current_max,
          threshold_exceeded |-> current_max > thr,
          high_kp_records |-> RoundRows(high),
          next_24h_forecast |-> RoundRows(nxt),
          alert_worthy |-> alert_worthy_of(high, current_max, thr),
          probability_df |->
              [ i \in 1..Len(rows) |->
                  Probability(rows[i].kp, thr, table.n_ens) ] ]

\* analyze_kp_data(df) with the two clock readings now1 (exceedance filter)
\* and now2 (rolling window).
analyze_kp_data(table, thr, now1, now2) ==
    IF Len(table.rows) = 0
    THEN AnalysisFailedDict      \* max of no rows is NaN: DECIMAL_TO_KP[nan] raises
    ELSE
    LET rows        == table.rows
        current_max == Round2(SeqMax([ i \in 1..Len(rows) |-> rows[i].maximum ]))
        high        == high_kp_records(rows, thr, now1)
        nxt         == next_24h(rows, now2)
    IN  IF current_max \notin DOMAIN DECIMAL_TO_KP
        THEN AnalysisFailedDict  \* KeyError in the log line, caught by except
        ELSE [ ok |-> TRUE,
               current_max_kp |-> current_max,
               threshold_exceeded |-> current_max > thr,
               high_kp_records |-> RoundRows(high),
               next_24h_forecast |-> RoundRows(nxt),
               alert_worthy |-> alert_worthy_of(high, current_max, thr),
               probability_df |->
                   [ i \in 1..Len(rows) |->
                       Probability(rows[i].kp, thr, table.n_ens) ] ]

\* the commented-out lines 471-479 put back: no alert within six hours of
\* the last one
should_send_alert_cooldown(a) ==
    IF ~a.alert_worthy THEN FALSE
    ELSE IF last_alert_time # None
            /\ clock - last_alert_time < COOLDOWN_HOURS * 60 THEN FALSE
    ELSE TRUE

\* lines 467-469; the same two lines in the legacy copy (370-371, 382)
should_send_alert(a) ==
    IF ~a.alert_worthy THEN FALSE ELSE TRUE

\* ------------------------------------------------------------------ inputs
Row(t, mx, md, mn, kp) ==
    [ t |-> t, maximum |-> mx, median |-> md, minimum |-> mn, kp |-> kp ]

Table(n, rows) ==
    [ fetched |-> TRUE, n_ens |-> n, rows |-> rows, time_parsed |-> FALSE ]

NoneDf ==
    [ fetched |-> FALSE, n_ens |-> 0, rows |-> << >>, time_parsed |-> FALSE ]

\* one-record tables of the monitoring loop: a record 3h or 10h after the
\* start of the run, below / at / above the threshold or off the Kp grid, with
\* two ensemble members of which one or both reach the maximum
LoopRows ==
    { Row(t, mx, 4333, 4000, << IF both THEN mx ELSE 4000, mx >>) :
        t \in {180, 600}, mx \in {4500, 4667, 5000, 5333, 5500},
        both \in BOOLEAN }

\* a full 3-hourly horizon of ten records, quiet or with one storm record
Horizon(mx) ==
    [ i \in 1..10 |->
        Row(180 * i, IF i = 4 THEN mx ELSE 4333, 4333, 4000, <<4000, 4333>>) ]

\* a record of the past with a maximum off the Kp grid, then a storm record
StaleStorm ==
    << Row(0, 5500, 4333, 4000, <<4000, 5500>>),
       Row(600, 5333, 4333, 4000, <<4000, 5333>>) >>

\* a storm record whose maximum is a legal bucket and whose median (4.50) is
\* not: the analysis succeeds and the label lookup of the message fails
OffGridMedian ==
    << Row(600, 5333, 4500, 4000, <<4000, 5333>>) >>

LoopTables ==
    { Table(2, << >>) } \cup { Table(2, <<r>>) : r \in LoopRows }
        \cup { Table(2, Horizon(mx)) : mx \in {4333, 5333} }
        \cup { Table(2, StaleStorm) }

Thresholds == {5000}

Intervals == {120, 420}

\* -------------------------------------------------------------------- Init
Init ==
    /\ config \in [ kp_alert_threshold : Thresholds, check_interval : Intervals ]
    /\ last_alert_time = None
    /\ last_max_kp = 0
    /\ clock \in {0, 60}
    /\ pc = "run"
    /\ df = NoneDf
    /\ analysis = AnalysisFailedDict
    /\ email_sent = FALSE
    /\ ret = "none"
    /\ decision = "none"
    /\ attempted = FALSE
    /\ pass0 = << None, 0 >>
    /\ written = {}
    /\ win_now = << 0, 0 >>
    /\ pure = NoCall

\* ----------------------------------------------------------------- actions
\* run_single_check, lines 492-496: a new pass starts with the fetch
FetchFrom(tables) ==
    /\ pc = "run"
    /\ \E d \in tables \cup {NoneDf} :
         /\ df' = d
         /\ IF d.fetched
            THEN pc' = "analyze" /\ ret' = "none"
            ELSE pc' = "sleep" /\ ret' = "False"
    /\ analysis' = AnalysisFailedDict
    /\ email_sent' = FALSE
    /\ decision' = "none"
    /\ attempted' = FALSE
    /\ pass0' = << last_alert_time, last_max_kp >>
    /\ written' = {}
    /\ UNCHANGED << pure, config, last_alert_time, last_max_kp, clock, win_now >>

Fetch == FetchFrom(LoopTables)

\* line 497: the analysis reads the clock twice (lines 166 and 167) and
\* parses the time column of df in place (lines 162-163)
AnalyzeTo(next) ==
    /\ pc = "analyze"
    /\ \E adv \in 0..MaxAdvance :
         /\ analysis' = analyze_kp_data(df, config.kp_alert_threshold,
                                        clock, clock + adv)
         /\ win_now' = << clock, clock + adv >>
         /\ clock' = clock + adv
    /\ df' = [ df EXCEPT !.time_parsed = TRUE ]
    /\ pc' = next
    /\ UNCHANGED << pure, config, last_alert_time, last_max_kp, email_sent, ret,
                    decision, attempted, pass0, written >>

Analyze == AnalyzeTo("decide")

\* lines 500, 513-518
Decide ==
    /\ pc = "decide"
    /\ IF should_send_alert(analysis)
       THEN decision' = "Alert" /\ pc' = "message" /\ ret' = ret
       ELSE decision' = "NoAlert" /\ pc' = "sleep" /\ ret' = "True"
    /\ UNCHANGED << pure, config, last_alert_time, last_max_kp, clock, df, analysis,
                    email_sent, attempted, pass0, written, win_now >>

\* the label lookups of the table left out of account
message_raises_window_only(a) ==
    Len(a.next_24h_forecast) = 0

\* create_alert_message raises when the rolling window is empty (iloc[0],
\* line 211) or when a statistic of an exceedance record is no key of
\* DECIMAL_TO_KP (lines 283-285)
message_raises(a) ==
    \/ Len(a.next_24h_forecast) = 0
    \/ \E i \in 1..Len(a.high_kp_records) :
         LET r == a.high_kp_records[i]
         IN  \/ r.median  \notin DOMAIN DECIMAL_TO_KP
             \/ r.minimum \notin DOMAIN DECIMAL_TO_KP
             \/ r.maximum \notin DOMAIN DECIMAL_TO_KP

\* lines 501-503; an exception leaves run_single_check and is caught by the
\* loop (lines 610-612)
CreateMessage ==
    /\ pc = "message"
    /\ pc' = IF message_raises(analysis) THEN "retry_sleep" ELSE "send"
    /\ UNCHANGED << pure, config, last_alert_time, last_max_kp, clock, df, analysis,
                    email_sent, ret, decision, attempted, pass0, written,
                    win_now >>

\* the state recorded whatever send_alert returned
dispatch_confirmed_always(sent) == TRUE

\* line 510: the state is recorded only when send_alert returned True
dispatch_confirmed(sent) == sent

\* lines 505-510: send_alert reports success or failure, never raises
Send ==
    /\ pc = "send"
    /\ attempted' = TRUE
    /\ \E ok \in BOOLEAN :
         /\ email_sent' = ok
         /\ IF dispatch_confirmed(ok)
            THEN pc' = "record_time" /\ ret' = ret
            ELSE pc' = "sleep" /\ ret' = "True"
    /\ UNCHANGED << pure, config, last_alert_time, last_max_kp, clock, df, analysis,
                    decision, pass0, written, win_now >>

\* line 511
RecordTime ==
    /\ pc = "record_time"
    /\ last_alert_time' = clock
    /\ written' = written \cup {"last_alert_time"}
    /\ pc' = "record_max"
    /\ UNCHANGED << pure, config, last_max_kp, clock, df, analysis, email_sent, ret,
                    decision, attempted, pass0, win_now >>

\* line 512, then return True (line 518)
RecordMax ==
    /\ pc = "record_max"
    /\ last_max_kp' = analysis.current_max_kp
    /\ written' = written \cup {"last_max_kp"}
    /\ pc' = "sleep"
    /\ ret' = "True"
    /\ UNCHANGED << pure, config, last_alert_time, clock, df, analysis, email_sent,
                    decision, attempted, pass0, win_now >>

\* lines 603-605
Sleep ==
    /\ pc = "sleep"
    /\ clock + config.check_interval <= MaxClock
    /\ clock' = clock + config.check_interval
    /\ pc' = "run"
    /\ UNCHANGED << pure, config, last_alert_time, last_max_kp, df, analysis,
                    email_sent, ret, decision, attempted, pass0, written,
                    win_now >>

\* line 612
RetrySleep ==
    /\ pc = "retry_sleep"
    /\ clock + RETRY_SLEEP <= MaxClock
    /\ clock' = clock + RETRY_SLEEP
    /\ pc' = "run"
    /\ UNCHANGED << pure, config, last_alert_time, last_max_kp, df, analysis,
                    email_sent, ret, decision, attempted, pass0, written,
                    win_now >>

\* Ctrl+C: inside the try block it is caught and the loop breaks (lines
\* 607-609); inside the handler's own sleep (line 612) nothing catches it
InTry ==
    { "run", "analyze", "decide", "message", "send", "record_time",
      "record_max", "sleep" }

KeyboardInterrupt ==
    /\ pc \in InTry \cup {"retry_sleep"}
    /\ pc' = IF pc \in InTry THEN "stopped" ELSE "killed"
    /\ UNCHANGED << pure, config, last_alert_time, last_max_kp, clock, df, analysis,
                    email_sent, ret, decision, attempted, pass0, written,
                    win_now >>

Next ==
    \/ Fetch
    \/ Analyze
    \/ Decide
    \/ CreateMessage
    \/ Send
    \/ RecordTime
    \/ RecordMax
    \/ Sleep
    \/ RetrySleep
    \/ KeyboardInterrupt

Spec == Init /\ [][Next]_vars

\* ------------------------------------------- the loop under fair scheduling
\* The interpreter goes on executing the loop: every step of a pass and each
\* of the two sleeps is eventually taken when it stays enabled. Ctrl+C is the
\* user's choice and is under no fairness condition. The run starts shortly
\* before the end of the modelled time, with a check interval of ten minutes
\* (check_interval_hours = 1/6), so that both sleeps are taken several times.
LiveSpan == 20

InitLive ==
    /\ config \in [ kp_alert_threshold : Thresholds, check_interval : {10} ]
    /\ last_alert_time = None
    /\ last_max_kp = 0
    /\ clock = MaxClock - LiveSpan
    /\ pc = "run"
    /\ df = NoneDf
    /\ analysis = AnalysisFailedDict
    /\ email_sent = FALSE
    /\ ret = "none"
    /\ decision = "none"
    /\ attempted = FALSE
    /\ pass0 = << None, 0 >>
    /\ written = {}
    /\ win_now = << 0, 0 >>
    /\ pure = NoCall

\* the tables of the loop and the one whose message cannot be built
FetchLive == FetchFrom(LoopTables \cup { Table(2, OffGridMedian) })

LoopStep ==
    \/ FetchLive
    \/ Analyze
    \/ Decide
    \/ CreateMessage
    \/ Send
    \/ RecordTime
    \/ RecordMax
    \/ Sleep
    \/ RetrySleep

NextLive ==
    \/ LoopStep
    \/ KeyboardInterrupt

SpecLive == InitLive /\ [][NextLive]_vars /\ WF_vars(LoopStep)

\* -------------------------------------------- the analysis on its own
\* Tables for one call of analyze_kp_data: every table of up to MaxFree
\* records with distinct timestamps in any order, and 3-hourly horizons of up
\* to MaxRows records, ascending, descending or with the first two swapped,
\* quiet or with one record at / above the threshold.
FreeTimes == {0, 180, 360}

FreeVals == {4667, 5000, 5333}

FreeTables ==
    UNION { { Table(2, [ i \in 1..n |-> Row(ts[i], ms[i], 4333, 4000, <<4333, ms[i]>>) ]) :
                ts \in { f \in [1..n -> FreeTimes] :
                           \A i, j \in 1..n : i # j => f[i] # f[j] },
                ms \in [1..n -> FreeVals] } :
            n \in 1..MaxFree }

HorizonTime(order, n, i) ==
    IF order = "asc" THEN 180 * i
    ELSE IF order = "desc" THEN 180 * (n + 1 - i)
    ELSE IF i = 1 THEN 360 ELSE IF i = 2 THEN 180 ELSE 180 * i

HorizonTables ==
    { Table(2, [ i \in 1..n |->
                   Row(HorizonTime(order, n, i), IF i = h THEN v ELSE 4667,
                       4333, 4000, <<4333, IF i = h THEN v ELSE 4667>>) ]) :
        n \in 4..MaxRows, order \in {"asc", "desc", "swap"},
        h \in 0..MaxRows, v \in {5000, 5333} }

AnalyzeTables == FreeTables \cup HorizonTables

InitWin ==
    /\ config \in [ kp_alert_threshold : Thresholds, check_interval : {120} ]
    /\ last_alert_time = None
    /\ last_max_kp = 0
    /\ clock \in {0, 180, 181, 360}
    /\ pc = "analyze"
    /\ df \in AnalyzeTables
    /\ analysis = AnalysisFailedDict
    /\ email_sent = FALSE
    /\ ret = "none"
    /\ decision = "none"
    /\ attempted = FALSE
    /\ pass0 = << None, 0 >>
    /\ written = {}
    /\ win_now = << 0, 0 >>
    /\ pure = NoCall

AnalyzeOnly == AnalyzeTo("analyzed")

NextWin == AnalyzeOnly

SpecWin == InitWin /\ [][NextWin]_vars

\* ------------------------------------- the probability series on its own
\* Tables with 0 to MaxEns ensemble-member columns: one record whose members
\* are each below the threshold or at one value hi at / above it, followed or
\* not by a quiet record, or by a record whose maximum is a legal bucket while
\* its median and its members are 9.333, above the Kp scale.
EnsembleTables ==
    UNION { { Table(n, << Row(180, IF \E k \in 1..n : up[k] THEN hi ELSE 4667,
                              4333, 4000,
                              [ k \in 1..n |-> IF up[k] THEN hi ELSE 4667 ]) >> \o tl) :
                up \in [1..n -> BOOLEAN],
                hi \in {5000, 5333},
                tl \in { << >>, << Row(360, 4667, 4333, 4000, [k \in 1..n |-> 4667]) >>,
                         << Row(360, 5333, 9333, 4000, [k \in 1..n |-> 9333]) >> } } :
            n \in 0..MaxEns }

InitProb ==
    /\ config \in [ kp_alert_threshold : Thresholds, check_interval : {120} ]
    /\ last_alert_time = None
    /\ last_max_kp = 0
    /\ clock = 0
    /\ pc = "analyze"
    /\ df \in EnsembleTables
    /\ analysis = AnalysisFailedDict
    /\ email_sent = FALSE
    /\ ret = "none"
    /\ decision = "none"
    /\ attempted = FALSE
    /\ pass0 = << None, 0 >>
    /\ written = {}
    /\ win_now = << 0, 0 >>
    /\ pure = NoCall

NextProb == AnalyzeOnly

SpecProb == InitProb /\ [][NextProb]_vars

\* ------------------------------------ the maximum against the threshold
\* Thresholds as a constructed monitor holds them (keys of DECIMAL_TO_KP) and
\* tables of one or two records, the first in the past or at the clock, the
\* second in the future, with maxima given to three decimals just below, at
\* and just above these thresholds.
GridThresholds == {4670, 5000, 5330}

RawMaxima == {4667, 4674, 4996, 5000, 5004, 5326, 5333, 5334}

MaxTables ==
    { Table(2, << Row(t, m, 4333, 4000, <<4000, m>>) >>) :
        t \in {0, 180, 360}, m \in RawMaxima }
    \cup { Table(2, << Row(0, m1, 4333, 4000, <<4000, m1>>),
                      Row(360, m2, 4333, 4000, <<4000, m2>>) >>) :
            m1 \in RawMaxima, m2 \in RawMaxima }

InitMax ==
    /\ config \in [ kp_alert_threshold : GridThresholds, check_interval : {120} ]
    /\ last_alert_time = None
    /\ last_max_kp = 0
    /\ clock = 180
    /\ pc = "analyze"
    /\ df \in MaxTables
    /\ analysis = AnalysisFailedDict
    /\ email_sent = FALSE
    /\ ret = "none"
    /\ decision = "none"
    /\ attempted = FALSE
    /\ pass0 = << None, 0 >>
    /\ written = {}
    /\ win_now = << 0, 0 >>
    /\ pure = NoCall

NextMax == AnalyzeOnly

SpecMax == InitMax /\ [][NextMax]_vars

\* ------------------------------------------- the two copies side by side
\* the legacy filter applied to the median column
legacy_high_kp_records_median(rows, thr) ==
    SelectSeq(rows, LAMBDA r : r.median > thr)

\* legacy copy, line 129: records strictly above the threshold, of any time
legacy_high_kp_records(rows, thr) ==
    SelectSeq(rows, LAMBDA r : r.maximum > thr)

\* legacy copy, lines 123-149: nothing is rounded, the clock is read once and
\* the log line formats the maximum as a number, so that it cannot raise; the
\* maximum of no records is NaN, written None
legacy_analyze_kp_data(table, thr, now) ==
    LET rows == table.rows
        high == legacy_high_kp_records(rows, thr)
        current_max ==
            IF Len(rows) = 0 THEN None
            ELSE SeqMax([ i \in 1..Len(rows) |-> rows[i].maximum ])
    IN  [ ok |-> TRUE,
          current_max_kp |-> current_max,
          threshold_exceeded |-> current_max > thr,
          high_kp_records |-> high,
          next_24h_forecast |-> next_24h(rows, now),
          alert_worthy |-> Len(high) > 0 ]

\* both copies analyse the same table with the same threshold at the same
\* clock; the result of the legacy copy is kept in pure
AnalyzeBoth ==
    /\ pc = "analyze"
    /\ \E adv \in 0..MaxAdvance :
         /\ analysis' = analyze_kp_data(df, config.kp_alert_threshold,
                                        clock, clock + adv)
         /\ win_now' = << clock, clock + adv >>
         /\ clock' = clock + adv
    /\ pure' = [ NoCall EXCEPT
                   !.fn = "legacy_analyze_kp_data", !.arg = clock, !.step = "done",
                   !.out = [ err |-> FALSE,
                             val |-> legacy_analyze_kp_data(
                                         df, config.kp_alert_threshold, clock) ] ]
    /\ df' = [ df EXCEPT !.time_parsed = TRUE ]
    /\ pc' = "analyzed"
    /\ UNCHANGED << config, last_alert_time, last_max_kp, email_sent, ret,
                    decision, attempted, pass0, written >>

NextBoth == AnalyzeBoth

SpecBoth == InitMax /\ [][NextBoth]_vars

\* ------------------------------------------------ functions on their own
\* the G1 band opened by kp > 5 instead of kp >= 5
get_status_level_color_strict(kp) ==
    IF kp = 9000
    THEN [ status |-> "EXTREME STORM CONDITIONS", level |-> "G5", color |-> "#FE0004" ]
    ELSE IF kp >= 8000
    THEN [ status |-> "SEVERE STORM CONDITIONS", level |-> "G4", color |-> "#FE0004" ]
    ELSE IF kp >= 7000
    THEN [ status |-> "STRONG STORM CONDITIONS", level |-> "G3", color |-> "#FD0007" ]
    ELSE IF kp >= 6000
    THEN [ status |-> "MODERATE STORM CONDITIONS", level |-> "G2", color |-> "#FF4612" ]
    ELSE IF kp > 5000
    THEN [ status |-> "MINOR STORM CONDITIONS", level |-> "G1", color |-> "#FE801D" ]
    ELSE IF kp >= 4000
    THEN [ status |-> "ACTIVE CONDITIONS", level |-> "ACTIVE", color |-> "#FFFA3D" ]
    ELSE [ status |-> "QUIET CONDITIONS", level |-> "QUIET", color |-> "#5cb85c" ]

\* get_status_level_color(kp), lines 393-424
get_status_level_color(kp) ==
    IF kp = 9000
    THEN [ status |-> "EXTREME STORM CONDITIONS", level |-> "G5", color |-> "#FE0004" ]
    ELSE IF kp >= 8000
    THEN [ status |-> "SEVERE STORM CONDITIONS", level |-> "G4", color |-> "#FE0004" ]
    ELSE IF kp >= 7000
    THEN [ status |-> "STRONG STORM CONDITIONS", level |-> "G3", color |-> "#FD0007" ]
    ELSE IF kp >= 6000
    THEN [ status |-> "MODERATE STORM CONDITIONS", level |-> "G2", color |-> "#FF4612" ]
    ELSE IF kp >= 5000
    THEN [ status |-> "MINOR STORM CONDITIONS", level |-> "G1", color |-> "#FE801D" ]
    ELSE IF kp >= 4000
    THEN [ status |-> "ACTIVE CONDITIONS", level |-> "ACTIVE", color |-> "#FFFA3D" ]
    ELSE [ status |-> "QUIET CONDITIONS", level |-> "QUIET", color |-> "#5cb85c" ]

\* KpMonitor.__init__, lines 81-82: the threshold is rounded to two decimals
\* and its label looked up in DECIMAL_TO_KP
KpMonitor_init(threshold) ==
    LET rounded == Round2(threshold)
    IN  IF rounded \in DOMAIN DECIMAL_TO_KP
        THEN [ err |-> FALSE,
               val |-> [ kp_alert_threshold |-> rounded,
                         kp_threshold_str |-> DECIMAL_TO_KP[rounded] ] ]
        ELSE [ err |-> TRUE, val |-> "KeyError" ]

\* An e-mail address by its shape: the number of characters before the @,
\* whether there is an @, the number of characters between the @ and the last
\* dot, and the number of letters after that dot.
Address(local, at, domain, tld) ==
    [ local |-> local, at |-> at, domain |-> domain, tld |-> tld ]

\* email_pattern.match(email), config.py line 125:
\* ^[a-zA-Z0-9._%+-]+@[a-zA-Z0-9.-]+\.[a-zA-Z]{2,}$
email_matches(e) ==
    e.local >= 1 /\ e.at /\ e.domain >= 1 /\ e.tld >= 2

Error(rule, at) == [ rule |-> rule, at |-> at ]

\* validation that stops at the first violated rule
validate_first(c) ==
    LET errors ==
            IF ~(0 <= c.kp_alert_threshold /\ c.kp_alert_threshold <= 9000)
            THEN << Error("kp_alert_threshold must be between 0 and 9", 0) >>
            ELSE IF c.check_interval <= 0
            THEN << Error("check_interval_hours must be positive", 0) >>
            ELSE IF Len(c.recipients) = 0
            THEN << Error("recipients cannot be empty", 0) >>
            ELSE IF \E i \in 1..Len(c.recipients) : ~email_matches(c.recipients[i])
            THEN << Error("Invalid email address",
                          CHOOSE i \in 1..Len(c.recipients) :
                              ~email_matches(c.recipients[i])) >>
            ELSE IF c.log_folder = ""
            THEN << Error("log_folder cannot be empty", 0) >>
            ELSE << >>
    IN  [ err |-> Len(errors) > 0, val |-> errors ]

\* MonitorConfig.validate, config.py lines 101-135: the errors are collected
\* in the order of the checks and ValueError is raised when there is any
validate(c) ==
    LET e1 == IF ~(0 <= c.kp_alert_threshold /\ c.kp_alert_threshold <= 9000)
              THEN << Error("kp_alert_threshold must be between 0 and 9", 0) >>
              ELSE << >>
        e2 == IF c.check_interval <= 0
              THEN << Error("check_interval_hours must be positive", 0) >>
              ELSE << >>
        e3 == IF Len(c.recipients) = 0
              THEN << Error("recipients cannot be empty", 0) >>
              ELSE << >>
        bad == SelectSeq([ i \in 1..Len(c.recipients) |-> i ],
                         LAMBDA i : ~email_matches(c.recipients[i]))
        e4 == [ k \in 1..Len(bad) |-> Error("Invalid email address", bad[k]) ]
        e5 == IF c.log_folder = ""
              THEN << Error("log_folder cannot be empty", 0) >>
              ELSE << >>
        errors == e1 \o e2 \o e3 \o e4 \o e5
    IN  [ err |-> Len(errors) > 0, val |-> errors ]

\* MonitorConfig.from_yaml, config.py lines 94-99, on the data of a readable
\* file: the object is built, validated and returned
from_yaml(data) ==
    IF validate(data).err
    THEN [ err |-> TRUE, val |-> validate(data).val ]
    ELSE [ err |-> FALSE, val |-> data ]

\* configurations as a YAML file may give them: thresholds and intervals
\* below, at and above the limits, up to two recipients, a log folder or none
Addresses ==
    { Address(1, TRUE, 1, 2), Address(1, FALSE, 1, 2),
      Address(1, TRUE, 1, 1), Address(0, TRUE, 1, 2) }

Recipients ==
    { << >> } \cup { << a >> : a \in Addresses }
        \cup { << a, b >> : a \in Addresses, b \in Addresses }

Configs ==
    [ kp_alert_threshold : {-1, 0, 5000, 9000, 9001},
      check_interval : {-60, 0, 1, 180},
      recipients : Recipients,
      log_folder : {"", "logs"} ]

\* decimals handed to the lookup and to the classifier: every thousandth from
\* Margin below 0.000 to Margin above 9.000
Decimals == (0 - Margin)..(9000 + Margin)

\* labels handed to the lookup: the keys and some strings that are no key
Labels == DOMAIN KP_TO_DECIMAL \cup {"9+", "10", "0-", ""}

\* thresholds that MonitorConfig.validate lets through (config.py lines 112-114)
ValidThresholds == 0..9000

Calls ==
    { [ NoCall EXCEPT !.fn = "decimal_to_label", !.arg = v, !.step = "call" ] :
        v \in Decimals }
    \cup { [ NoCall EXCEPT !.fn = "label_to_decimal", !.arg = l, !.step = "call" ] :
        l \in Labels }
    \cup { [ NoCall EXCEPT !.fn = "get_status_level_color", !.arg = v, !.step = "call" ] :
        v \in Decimals }
    \cup { [ NoCall EXCEPT !.fn = "__init__", !.arg = v, !.step = "call" ] :
        v \in ValidThresholds }
    \cup { [ NoCall EXCEPT !.fn = "validate", !.arg = c, !.step = "call" ] :
        c \in Configs }
    \cup { [ NoCall EXCEPT !.fn = "from_yaml", !.arg = c, !.step = "call" ] :
        c \in Configs }

InitPure ==
    /\ config \in [ kp_alert_threshold : Thresholds, check_interval : {120} ]
    /\ last_alert_time = None
    /\ last_max_kp = 0
    /\ clock = 0
    /\ pc = "call"
    /\ df = NoneDf
    /\ analysis = AnalysisFailedDict
    /\ email_sent = FALSE
    /\ ret = "none"
    /\ decision = "none"
    /\ attempted = FALSE
    /\ pass0 = << None, 0 >>
    /\ written = {}
    /\ win_now = << 0, 0 >>
    /\ pure \in Calls

\* the function is applied to its argument
Apply ==
    /\ pure.step = "call"
    /\ pure' =
         [ pure EXCEPT
             !.step = "done",
             !.out = CASE pure.fn = "decimal_to_label" -> decimal_to_label(pure.arg)
                       [] pure.fn = "label_to_decimal" -> label_to_decimal(pure.arg)
                       [] pure.fn = "get_status_level_color" ->
                            [ err |-> FALSE, val |-> get_status_level_color(pure.arg) ]
                       [] pure.fn = "__init__" -> KpMonitor_init(pure.arg)
                       [] pure.fn = "validate" -> validate(pure.arg)
                       [] pure.fn = "from_yaml" -> from_yaml(pure.arg) ]
    /\ UNCHANGED << config, last_alert_time, last_max_kp, clock, pc, df,
                    analysis, email_sent, ret, decision, attempted, pass0,
                    written, win_now >>

\* the result of a lookup is looked up in the other dictionary
RoundTrip ==
    /\ pure.step = "done"
    /\ pure.fn \in {"decimal_to_label", "label_to_decimal"}
    /\ ~pure.out.err
    /\ pure' =
         [ pure EXCEPT
             !.step = "back",
             !.back = IF pure.fn = "decimal_to_label"
                      THEN label_to_decimal(pure.out.val)
                      ELSE decimal_to_label(pure.out.val) ]
    /\ UNCHANGED << config, last_alert_time, last_max_kp, clock, pc, df,
                    analysis, email_sent, ret, decision, attempted, pass0,
                    written, win_now >>

NextPure ==
    \/ Apply
    \/ RoundTrip

SpecPure == InitPure /\ [][NextPure]_vars

\* ================================================================== claims
AlertState == << last_alert_time, last_max_kp >>

\* the pass has run to its end (returned, or raised into the loop's handler)
PassOver == pc \in {"sleep", "retry_sleep"}

\* the pass fetched a table and analysed it
Analysed == df.fetched /\ df.time_parsed

COOLDOWN == COOLDOWN_HOURS * 60

\* some record of the table is at or after now with maximum >= threshold
Exceeds(now) ==
    \E i \in 1..Len(df.rows) :
        df.rows[i].t >= now /\ df.rows[i].maximum >= config.kp_alert_threshold

Future(now) == { i \in 1..Len(df.rows) : df.rows[i].t >= now }

IsAscending(rows) ==
    \A i, j \in 1..Len(rows) : i < j => rows[i].t < rows[j].t

\* C1: an alert-worthy pass that starts 2 hours after a recorded dispatch
\* (6-hour cooldown) is decided Suppressed: no notification is sent in it and
\* the alert state stays as it was.
C1_SuppressedTwoHoursAfterDispatch ==
    ( /\ PassOver /\ Analysed
      /\ analysis.ok /\ analysis.alert_worthy
      /\ pass0[1] # None
      /\ win_now[1] - pass0[1] = 120
      /\ 120 < COOLDOWN )
    => ( decision # "Alert" /\ ~attempted /\ AlertState = pass0 )

\* C2: an alert-worthy pass 7 hours after a recorded dispatch is decided
\* Alert, and every alert-worthy pass that starts less than 6 hours after a
\* recorded dispatch is decided Suppressed.
C2_AlertAfterCooldownThenSuppressed ==
    ( /\ PassOver /\ Analysed
      /\ analysis.ok /\ analysis.alert_worthy
      /\ pass0[1] # None )
    => ( /\ (win_now[1] - pass0[1] = 420 => decision = "Alert")
         /\ (win_now[1] - pass0[1] < COOLDOWN => decision # "Alert") )

\* C3: in every pass whose fetch succeeded, whose table has a record at or
\* after now with maximum >= threshold and with no cooldown in force, the
\* decision is Alert and a dispatch is attempted; with threshold 5.00 and the
\* single record at now+3h, maximum 5.33, all members >= 5.00, the decision is
\* Alert and the probability of that record is 1.00.
C3_AlertWhenWindowNonEmpty ==
    /\ ( /\ PassOver /\ Analysed
         /\ Exceeds(win_now[1])
         /\ (pass0[1] = None \/ win_now[1] - pass0[1] >= COOLDOWN) )
       => ( decision = "Alert" /\ attempted )
    /\ ( /\ PassOver /\ Analysed
         /\ config.kp_alert_threshold = 5000
         /\ Len(df.rows) = 1
         /\ df.rows[1].t = win_now[1] + 180
         /\ df.rows[1].maximum = 5333
         /\ \A k \in 1..Len(df.rows[1].kp) : df.rows[1].kp[k] >= 5000 )
       => ( decision = "Alert" /\ analysis.probability_df[1] = 100 )

\* C4: in a pass whose table has no record at or after now with maximum >=
\* threshold the decision is NoAlert: the exceedance window is empty, nothing
\* is sent, the alert state is unchanged, and the rolling window holds the
\* available future records (at most 9, none when there is none).
C4_NoAlertWhenQuiet ==
    ( PassOver /\ Analysed /\ ~Exceeds(win_now[1]) )
    => ( /\ decision = "NoAlert"
         /\ Len(analysis.high_kp_records) = 0
         /\ ~attempted
         /\ AlertState = pass0
         /\ Len(analysis.next_24h_forecast) <= 9
         /\ (Future(win_now[2]) # {} => Len(analysis.next_24h_forecast) > 0)
         /\ \A j \in 1..Len(analysis.next_24h_forecast) :
               \E i \in Future(win_now[2]) :
                   analysis.next_24h_forecast[j].t = df.rows[i].t )

\* C5: the alert state changes only in a pass that decided Alert and whose
\* send reported success; a pass that ends after a failed fetch, a NoAlert
\* decision or a failed send has left both fields as they were.
C5_StateChangesOnlyOnConfirmedDispatch ==
    [][ /\ (AlertState' # AlertState
              => (decision = "Alert" /\ attempted /\ email_sent))
        /\ ( ( /\ PassOver'
               /\ \/ ret' = "False"
                  \/ decision' = "NoAlert"
                  \/ (attempted' /\ ~email_sent') )
             => AlertState' = pass0' ) ]_vars

C5_Witness ==
    /\ pc = "sleep"
    /\ attempted /\ ~email_sent
    /\ pass0[1] # None
    /\ AlertState = pass0

\* C6: a cancelled run never shows last_alert_time written for a dispatch
\* while last_max_kp still holds the value from before that dispatch.
C6_AtomicStateUpdate ==
    pc \in {"stopped", "killed"}
    => ~ ( /\ "last_alert_time" \in written
           /\ "last_max_kp" \notin written
           /\ last_max_kp = pass0[2]
           /\ last_max_kp # analysis.current_max_kp )

\* C7: the exceedance window of a successful analysis holds exactly the
\* records of the table with timestamp >= now and maximum >= threshold
\* (both inclusive), each once, with its statistics rounded to two decimals.
C7_ExceedanceWindowExact ==
    ( pc = "analyzed" /\ analysis.ok )
    => LET high == analysis.high_kp_records
           sel  == { i \in 1..Len(df.rows) :
                       /\ df.rows[i].t >= win_now[1]
                       /\ df.rows[i].maximum >= config.kp_alert_threshold }
       IN  /\ Len(high) = Cardinality(sel)
           /\ \A i \in sel : \E j \in 1..Len(high) : high[j] = RoundRow(df.rows[i])
           /\ \A j \in 1..Len(high) : \E i \in sel : high[j] = RoundRow(df.rows[i])

C7_Witness ==
    /\ pc = "analyzed" /\ analysis.ok
    /\ Len(analysis.high_kp_records) >= 1
    /\ \E j \in 1..Len(analysis.high_kp_records) :
          analysis.high_kp_records[j].maximum = config.kp_alert_threshold
    /\ \E i \in 1..Len(df.rows) :
          /\ df.rows[i].maximum >= config.kp_alert_threshold
          /\ df.rows[i].t < win_now[1]

C9_RollingWindowBounded ==
    ( pc = "analyzed" /\ analysis.ok )
    => /\ Len(analysis.next_24h_forecast) <= 9
       /\ \A j \in 1..Len(analysis.next_24h_forecast) :
             /\ analysis.next_24h_forecast[j].t >= win_now[2]
             /\ analysis.next_24h_forecast[j].t >= win_now[1]

C9_Witness ==
    /\ pc = "analyzed" /\ analysis.ok
    /\ Cardinality(Future(win_now[2])) > ROLLING_HEAD
    /\ Len(analysis.next_24h_forecast) = ROLLING_HEAD
    /\ \E i \in 1..Len(df.rows) : df.rows[i].t < win_now[1]

\* C10: in every analysis result alert_worthy is false exactly when the
\* exceedance window is empty.
C10_AlertWorthyIffWindowNonEmpty ==
    ( pc = "analyzed" /\ analysis.ok )
    => ( analysis.alert_worthy = FALSE <=> Len(analysis.high_kp_records) = 0 )

C10_Witness ==
    /\ pc = "analyzed" /\ analysis.ok
    /\ ~analysis.alert_worthy
    /\ analysis.threshold_exceeded
    /\ Len(analysis.high_kp_records) = 0

\* C11: within one analysis both windows are selected against the same
\* reference now: no record of the table is at or after the now of one
\* selection and before the now of the other.
C11_SingleReferenceNow ==
    ( pc = "analyzed" /\ analysis.ok )
    => \A i \in 1..Len(df.rows) :
          (df.rows[i].t >= win_now[1]) <=> (df.rows[i].t >= win_now[2])

\* the analysis of the table raises: no rows (the maximum is NaN) or a
\* maximum that rounds to no key of DECIMAL_TO_KP
AnalysisRaises ==
    \/ Len(df.rows) = 0
    \/ \A l \in DOMAIN KP_TO_DECIMAL :
          KP_TO_DECIMAL[l] #
              Round2(SeqMax([ i \in 1..Len(df.rows) |-> df.rows[i].maximum ]))

\* C12: a pass whose analysis raised is not reported to the caller as a
\* normally completed pass: run_single_check does not return True and no
\* NoAlert decision is made from it.
C12_AnalysisFailureSurfaced ==
    ( PassOver /\ Analysed /\ AnalysisRaises )
    => ( ret # "True" /\ decision # "NoAlert" )

\* C13: in a pass whose fetch failed or whose analysis raised, no notification
\* is sent and last_alert_time and last_max_kp are as they were when the pass
\* started.
C13_FailedPassSendsNothing ==
    ( \/ (pc # "run" /\ ~df.fetched)
      \/ (Analysed /\ AnalysisRaises) )
    => ( ~attempted /\ ~email_sent /\ AlertState = pass0 )

C13_Witness ==
    /\ PassOver /\ Analysed /\ AnalysisRaises
    /\ Len(df.rows) = 2
    /\ df.rows[2].t >= win_now[1]
    /\ df.rows[2].maximum >= config.kp_alert_threshold
    /\ pass0[1] # None
    /\ ~attempted

\* the Kp grid: 0.00 to 9.00 in steps of one third, written with two decimals
Third(k) ==
    1000 * (k \div 3) + (IF k % 3 = 0 THEN 0 ELSE IF k % 3 = 1 THEN 330 ELSE 670)

Grid == { Third(k) : k \in 0..27 }

\* C14 as stated: the codec is a bijection between exactly 27 decimals and 27
\* labels, every lookup of a legal value succeeds and looking the result up in
\* the other direction gives the value back.
C14_BijectionOf27 ==
    /\ Cardinality(DOMAIN KP_TO_DECIMAL) = 27
    /\ Cardinality(DOMAIN DECIMAL_TO_KP) = 27
    /\ ( /\ pure.fn = "decimal_to_label" /\ pure.step # "call"
         /\ pure.arg \in Grid ) => ~pure.out.err
    /\ ( /\ pure.fn = "label_to_decimal" /\ pure.step # "call"
         /\ pure.arg \in DOMAIN KP_TO_DECIMAL ) => ~pure.out.err
    /\ pure.step = "back" => ( ~pure.back.err /\ pure.back.val = pure.arg )

\* C14 amended: the codec is a bijection between exactly 28 decimals (0.00 to
\* 9.00 in steps of one third) and 28 labels, with both round trips.
C14_BijectionOf28 ==
    /\ Cardinality(DOMAIN KP_TO_DECIMAL) = 28
    /\ Cardinality(DOMAIN DECIMAL_TO_KP) = 28
    /\ DOMAIN DECIMAL_TO_KP = Grid
    /\ ( /\ pure.fn = "decimal_to_label" /\ pure.step # "call"
         /\ pure.arg \in Grid ) => ~pure.out.err
    /\ ( /\ pure.fn = "label_to_decimal" /\ pure.step # "call"
         /\ pure.arg \in DOMAIN KP_TO_DECIMAL ) => ~pure.out.err
    /\ pure.step = "back" => ( ~pure.back.err /\ pure.back.val = pure.arg )

C14_Witness ==
    /\ pure.fn = "label_to_decimal"
    /\ pure.arg = "9-"
    /\ pure.step = "back"
    /\ pure.out.val = 8670
    /\ pure.back.val = "9-"

\* C15: the lookup of a decimal that is not one of the legal bucket values
\* fails and returns no label; the lookup does not round its argument.
C15_NonBucketLookupFails ==
    ( /\ pure.fn = "decimal_to_label" /\ pure.step # "call"
      /\ pure.arg \notin Grid )
    => pure.out.err

C15_Witness ==
    /\ pure.fn = "decimal_to_label"
    /\ pure.step = "done"
    /\ pure.arg = 5333
    /\ pure.out.err

Levels == << "QUIET", "ACTIVE", "G1", "G2", "G3", "G4", "G5" >>

Statuses ==
    << "QUIET CONDITIONS", "ACTIVE CONDITIONS", "MINOR STORM CONDITIONS",
       "MODERATE STORM CONDITIONS", "STRONG STORM CONDITIONS",
       "SEVERE STORM CONDITIONS", "EXTREME STORM CONDITIONS" >>

\* the number of band bounds 4, 5, 6, 7, 8, 9 that are not above the value
BandsBelow(v) ==
    Cardinality({ b \in {4000, 5000, 6000, 7000, 8000, 9000} : b <= v })

Rank(level) == CHOOSE i \in 1..7 : Levels[i] = level

\* C16: for every value in [0, 9] the classifier returns the band with the
\* greatest inclusive lower bound not above the value, and the band of the
\* next smaller value is never more severe.
C16_ClassifyBands ==
    ( /\ pure.fn = "get_status_level_color" /\ pure.step = "done"
      /\ pure.arg >= 0 /\ pure.arg <= 9000 )
    => /\ ~pure.out.err
       /\ pure.out.val.level = Levels[BandsBelow(pure.arg) + 1]
       /\ pure.out.val.status = Statuses[BandsBelow(pure.arg) + 1]
       /\ pure.arg >= 1 =>
             Rank(get_status_level_color(pure.arg - 1).level)
                 <= Rank(pure.out.val.level)

C16_Witness ==
    /\ pure.fn = "get_status_level_color" /\ pure.step = "done"
    /\ pure.arg = 5000
    /\ pure.out.val.level = "G1"

\* C17: for every value below 0 or above 9 the classifier fails and returns
\* no status, level or colour.
C17_OutOfRangeRejected ==
    ( /\ pure.fn = "get_status_level_color" /\ pure.step = "done"
      /\ (pure.arg < 0 \/ pure.arg > 9000) )
    => pure.out.err

Dist(a, b) == IF a >= b THEN a - b ELSE b - a

\* C20: for every configured threshold in [0, 9] the construction of the
\* monitor succeeds and the threshold it uses is the legal bucket value
\* nearest to the configured one.
C20_ThresholdRoundedToBucket ==
    ( /\ pure.fn = "__init__" /\ pure.step = "done"
      /\ pure.arg >= 0 /\ pure.arg <= 9000 )
    => /\ ~pure.out.err
       /\ pure.out.val.kp_alert_threshold \in Grid
       /\ \A g \in Grid :
             Dist(pure.out.val.kp_alert_threshold, pure.arg) <= Dist(g, pure.arg)

\* C18: for every record of the table the probability of the series, as
\* reported to two decimals, is (members of the record >= threshold) divided
\* by (member columns of the table); 3 of 10 gives 0.30.
C18_ProbabilityIsFraction ==
    ( pc = "analyzed" /\ analysis.ok /\ df.n_ens > 0 )
    => /\ Len(analysis.probability_df) = Len(df.rows)
       /\ \A i \in 1..Len(df.rows) :
             LET c == Cardinality({ k \in 1..df.n_ens :
                          df.rows[i].kp[k] >= config.kp_alert_threshold })
                 p == analysis.probability_df[i]
             IN  /\ 2 * Dist(100 * c, p * df.n_ens) <= df.n_ens
                 /\ (df.n_ens = 10 /\ c = 3) => p = 30
                 /\ c = df.n_ens => p = 100
                 /\ c = 0 => p = 0

C18_Witness ==
    /\ pc = "analyzed" /\ analysis.ok
    /\ df.n_ens = 10
    /\ Cardinality({ k \in 1..10 : df.rows[1].kp[k] = config.kp_alert_threshold }) = 3
    /\ analysis.probability_df[1] = 30

\* C19: the analysis of a table with no ensemble-member column fails; it
\* yields no probability series.
C19_NoEnsembleDataFails ==
    ( pc = "analyzed" /\ df.n_ens = 0 )
    => ( ~analysis.ok /\ Len(analysis.probability_df) = 0 )

\* every summary statistic and every member value of the record is in [0, 9]
InRange(r) ==
    /\ r.maximum \in 0..9000 /\ r.median \in 0..9000 /\ r.minimum \in 0..9000
    /\ \A k \in 1..Len(r.kp) : r.kp[k] \in 0..9000

\* C21: a table holding a statistic or a member value outside [0, 9] is
\* rejected by the analysis: it never comes back with a result, so no such
\* value reaches the windows or the probability series.
C21_MalformedInputRejected ==
    (pc = "analyzed" /\ \E i \in 1..Len(df.rows) : ~InRange(df.rows[i]))
        => ~analysis.ok

\* C22: an analysis pass does not mutate its input table: across the call of
\* analyze_kp_data, on its normal and on its error path, the table passed in
\* keeps every column as it was.
C22_InputTableNotMutated ==
    [][pc = "analyze" => df' = df]_vars

\* C23: run_single_check returns False in every pass in which the fetch or
\* the analysis failed, and True only when the table was fetched and analysed
\* without error.
C23_ReturnTellsSuccess ==
    /\ ( PassOver /\ (~df.fetched \/ (Analysed /\ AnalysisRaises)) )
         => ret = "False"
    /\ ret = "True" => ( Analysed /\ ~AnalysisRaises )

\* the pass failed: the fetch returned nothing, or an exception left
\* run_single_check and was caught by the loop
FailedPass ==
    \/ pc = "sleep" /\ ret = "False"
    \/ pc = "retry_sleep"

\* the sleep that follows the pass ends within the modelled time
SleepEnds ==
    \/ pc = "sleep" /\ clock + config.check_interval <= MaxClock
    \/ pc = "retry_sleep" /\ clock + RETRY_SLEEP <= MaxClock

Interrupted == pc \in {"stopped", "killed"}

\* after a failed pass the loop comes back to the call of run_single_check,
\* unless it is interrupted
C24_FailedPassRetried ==
    (FailedPass /\ SleepEnds) ~> (pc = "run" \/ Interrupted)

\* a KeyboardInterrupt never leaves run_continuous_monitoring as an exception
C24_StopIsClean ==
    [](pc # "killed")

\* C24: continuous monitoring runs indefinitely: after a failed pass a further
\* pass is eventually started, and a KeyboardInterrupt, at any point of the
\* loop, stops it cleanly by returning from run_continuous_monitoring.
C24_RunsUntilInterrupted ==
    C24_FailedPassRetried /\ C24_StopIsClean

\* the rules of the claim that the configuration violates
ViolatedRules(c) ==
    ( IF c.kp_alert_threshold < 0 \/ c.kp_alert_threshold > 9000
      THEN { Error("kp_alert_threshold must be between 0 and 9", 0) } ELSE {} )
    \cup ( IF c.check_interval <= 0
           THEN { Error("check_interval_hours must be positive", 0) } ELSE {} )
    \cup ( IF c.recipients = << >>
           THEN { Error("recipients cannot be empty", 0) } ELSE {} )
    \cup { Error("Invalid email address", i) :
             i \in { j \in 1..Len(c.recipients) :
                        ~( c.recipients[j].local >= 1 /\ c.recipients[j].at
                           /\ c.recipients[j].domain >= 1
                           /\ c.recipients[j].tld >= 2 ) } }
    \cup ( IF c.log_folder = ""
           THEN { Error("log_folder cannot be empty", 0) } ELSE {} )

\* C25: validate raises ValueError exactly when some rule is violated, the
\* error lists every violated rule and nothing else, and a configuration that
\* from_yaml returns violates no rule.
C25_ValidateIffInvalid ==
    /\ ( pure.fn = "validate" /\ pure.step = "done" ) =>
          /\ pure.out.err <=> ViolatedRules(pure.arg) # {}
          /\ { pure.out.val[i] : i \in 1..Len(pure.out.val) }
                = ViolatedRules(pure.arg)
    /\ ( pure.fn = "from_yaml" /\ pure.step = "done" ) =>
          IF pure.out.err
          THEN ViolatedRules(pure.arg) # {}
          ELSE pure.out.val = pure.arg /\ ViolatedRules(pure.out.val) = {}

C25_Witness ==
    /\ pure.fn = "validate" /\ pure.step = "done"
    /\ pure.out.err
    /\ Len(pure.out.val) >= 5
    /\ pure.arg.kp_alert_threshold = 9001

C27_AlertHasRollingWindow ==
    ( Analysed /\ analysis.ok /\ analysis.alert_worthy )
        => Len(analysis.next_24h_forecast) > 0

\* the pass decided to alert and its message cannot be built: the rolling
\* window is empty, or a statistic of an exceedance record is off the Kp grid
CannotBuildMessage ==
    /\ decision = "Alert"
    /\ \/ analysis.next_24h_forecast = << >>
       \/ \E i \in 1..Len(analysis.high_kp_records) :
            { analysis.high_kp_records[i].median,
              analysis.high_kp_records[i].minimum,
              analysis.high_kp_records[i].maximum } \ Grid # {}

\* C28: when building the alert message raises, no e-mail is sent in that
\* pass, last_alert_time and last_max_kp stay as they were, and the loop goes
\* on to a later pass (unless the user interrupts it).
C28_MessageFailureContained ==
    /\ [](CannotBuildMessage => (~attempted /\ ~email_sent /\ AlertState = pass0))
    /\ (CannotBuildMessage /\ pc = "message") ~> (pc = "retry_sleep" \/ Interrupted)
    /\ (CannotBuildMessage /\ pc = "retry_sleep" /\ SleepEnds)
           ~> (pc = "run" \/ Interrupted)

C28_Witness ==
    /\ CannotBuildMessage /\ pc = "retry_sleep"
    /\ analysis.next_24h_forecast # << >>
    /\ analysis.high_kp_records[1].median = 4500
    /\ last_alert_time # None

\* C29: on every successful analysis of the current copy, alert_worthy
\* implies current_max_kp >= threshold.
C29_AlertImpliesMaxAtThreshold ==
    ( Analysed /\ analysis.ok /\ analysis.alert_worthy )
        => analysis.current_max_kp >= config.kp_alert_threshold

\* an alert whose maximum, 5.334, is reported as 5.33, the threshold itself
C29_Witness ==
    /\ Analysed /\ analysis.ok /\ analysis.alert_worthy
    /\ config.kp_alert_threshold = 5330
    /\ analysis.current_max_kp = 5330
    /\ \E i \in 1..Len(df.rows) : df.rows[i].maximum = 5334

\* the time stamps of the records of a window
Times(rows) == { rows[i].t : i \in 1..Len(rows) }

BothAnalysed ==
    Analysed /\ pure.fn = "legacy_analyze_kp_data" /\ pure.step = "done"

\* C30: on the same table, threshold and clock, every record of the current
\* copy's exceedance window whose maximum is strictly above the threshold is
\* in the legacy copy's high-Kp set, and when the current copy is alert-worthy
\* because of such a record the legacy copy is alert-worthy too.
C30_LegacyCoversStrictExceedance ==
    ( BothAnalysed /\ analysis.ok ) =>
        /\ \A i \in 1..Len(df.rows) :
              ( df.rows[i].t \in Times(analysis.high_kp_records)
                /\ df.rows[i].maximum > config.kp_alert_threshold )
              => df.rows[i] \in { pure.out.val.high_kp_records[k] :
                                    k \in 1..Len(pure.out.val.high_kp_records) }
        /\ ( analysis.alert_worthy
             /\ \E i \in 1..Len(df.rows) :
                   /\ df.rows[i].t \in Times(analysis.high_kp_records)
                   /\ df.rows[i].maximum > config.kp_alert_threshold )
           => pure.out.val.alert_worthy

\* both copies alert on the future record above the threshold; the past
\* record above the threshold is in the legacy set only
C30_Witness ==
    /\ BothAnalysed /\ analysis.ok /\ analysis.alert_worthy
    /\ pure.out.val.alert_worthy
    /\ Len(analysis.high_kp_records) = 1
    /\ Len(pure.out.val.high_kp_records) = 2
    /\ df.rows[2].maximum > config.kp_alert_threshold

====
